---- MODULE Spec2Model ----
(***************************************************************************)
(* fatiando.inv.gsolvers: the one-shot least-squares solver `linsolver`    *)
(* and the Levenberg-Marquardt solver `marq`, as a state machine.          *)
(*                                                                         *)
(* Arithmetic is exact.  Vectors are sequences of integers, matrices are   *)
(* sequences of rows.  The damping parameter lm_param and the inputs       *)
(* lmstart and lmstep are powers of ten and are held as their base-10      *)
(* exponents, so that 10**(-10) and 10**(10) are the exponents -10 and 10, *)
(* a product of two of them is the sum of the exponents and a quotient the *)
(* difference.  tol is the rational tol[1]/tol[2].                         *)
(*                                                                         *)
(* func and jac are caller-supplied: the model draws them from a small     *)
(* family of forward models (linear A.p, quadratic A.p^2).  The matrix     *)
(* handed to numpy.linalg.solve is built exactly as the code builds it;    *)
(* the solve raises on an exactly singular matrix, returns the zero vector *)
(* for a zero right-hand side, and otherwise returns a vector of a small   *)
(* grid, each component with the sign of the exact solution's component    *)
(* (by Cramer's rule) and any size of the grid, zero included.             *)
(***************************************************************************)
EXTENDS Integers, Sequences, FiniteSets

VARIABLES
    args,           \* the call: entry point and its arguments (lines 53, 67-68)
    pc,             \* position in the called function
    reg_norm, reg_grad, reg_hess,   \* the callbacks in effect (rebound at 56-59, 71-74)
    residuals,      \* lines 62, 76, 96
    rms, reg,       \* lines 77-78, 97-98
    goals,          \* lines 79, 115
    lm_param,       \* lines 81, 103, 109, as an exponent of ten
    next, prev,     \* lines 82, 84, 95, 111
    iteration,      \* line 83: outer iterations begun
    jacobian, gradient, hessian, hessian_diag,  \* lines 60, 85-90
    stagnation,     \* lines 92, 104
    lm_iteration,   \* line 93: inner attempts begun in this outer iteration
    system,         \* the matrix last handed to linsys_solver (lines 61, 94)
    delta, goal,    \* lines 94, 99
    result,         \* the returned dictionary (lines 63, 119)
    error,          \* the exception that left the function, "" when none
    warnings,       \* log.warning calls made (line 112)
    func_calls,     \* calls of func made
    user_reg_calls, \* calls made of callbacks the caller supplied
    accepted        \* outer iterations whose inner search lowered the goal

vars == <<args, pc, reg_norm, reg_grad, reg_hess, residuals, rms, reg, goals,
          lm_param, next, prev, iteration, jacobian, gradient, hessian,
          hessian_diag, stagnation, lm_iteration, system, delta, goal, result,
          error, warnings, func_calls, user_reg_calls, accepted>>

----------------------------------------------------------------------------
\* Bounds of the model.

\* largest maxit a call is made with
MaxIt == 3
\* largest maxsteps a call is made with
MaxSteps == 2

----------------------------------------------------------------------------
\* Vector and matrix algebra (numpy).

RECURSIVE SumSeq(_)
SumSeq(s) == IF Len(s) = 0 THEN 0 ELSE Head(s) + SumSeq(Tail(s))

Abs(x) == IF x < 0 THEN 0 - x ELSE x

\* numpy's J.T
Transpose(J) == [j \in 1..Len(J[1]) |-> [i \in 1..Len(J) |-> J[i][j]]]

\* numpy.dot of a matrix and a vector
dot_product_mv(A, v) ==
    [i \in 1..Len(A) |-> SumSeq([k \in 1..Len(v) |-> A[i][k] * v[k]])]

\* numpy.dot of two matrices
dot_product_mm(A, B) ==
    [i \in 1..Len(A) |->
        [j \in 1..Len(B[1]) |-> SumSeq([k \in 1..Len(B) |-> A[i][k] * B[k][j]])]]

VecAdd(u, v) == [i \in 1..Len(u) |-> u[i] + v[i]]
VecSub(u, v) == [i \in 1..Len(u) |-> u[i] - v[i]]
VecNeg(u) == [i \in 1..Len(u) |-> 0 - u[i]]
ZeroVec(n) == [i \in 1..n |-> 0]
Identity(n) == [i \in 1..n |-> [j \in 1..n |-> IF i = j THEN 1 ELSE 0]]
MatAdd(A, B) == [i \in 1..Len(A) |-> [j \in 1..Len(A[1]) |-> A[i][j] + B[i][j]]]

\* numpy.linalg.norm(v)**2
SqNorm(v) == SumSeq([i \in 1..Len(v) |-> v[i] * v[i]])

\* ndarray.diagonal()
Diagonal(H) == [i \in 1..Len(H) |-> H[i][i]]

----------------------------------------------------------------------------
\* The caller's forward model: func and jac.

\* func(p): row i is sum_j A[i][j]*p[j] (linear), sum_j A[i][j]*p[j]^2
\* (quadratic) or sum_j A[i][j]*(p[j]^3 - 2 p[j] + 2) (cubic)
Func(f, p) ==
    IF f.kind = "linear"
    THEN dot_product_mv(f.A, p)
    ELSE IF f.kind = "quadratic"
    THEN dot_product_mv(f.A, [j \in 1..Len(p) |-> p[j] * p[j]])
    ELSE dot_product_mv(f.A,
            [j \in 1..Len(p) |-> p[j] * p[j] * p[j] - 2 * p[j] + 2])

\* jac(p): the matrix of partial derivatives of Func
Jac(f, p) ==
    IF f.kind = "linear"
    THEN f.A
    ELSE IF f.kind = "quadratic"
    THEN [i \in 1..Len(f.A) |-> [j \in 1..Len(p) |-> 2 * f.A[i][j] * p[j]]]
    ELSE [i \in 1..Len(f.A) |->
            [j \in 1..Len(p) |-> f.A[i][j] * (3 * p[j] * p[j] - 2)]]

----------------------------------------------------------------------------
\* Regularization callbacks.  "None" is an omitted argument, "lambda" the
\* do-nothing default the solver installs, "noop" a do-nothing callback the
\* caller passes explicitly, "ridge" a caller's damping penalty |p|^2.

UserKinds == {"noop", "ridge"}

Callable(k) == k # "None"

RegNorm(k, x) == IF k = "ridge" THEN SqNorm(x) ELSE 0
RegGrad(k, x, g) == IF k = "ridge" THEN VecAdd(g, x) ELSE g
RegHess(k, h) == IF k = "ridge" THEN MatAdd(h, Identity(Len(h))) ELSE h

UserCall(k) == IF k \in UserKinds THEN 1 ELSE 0

\* the defaulting with "and" for "or": only a bundle omitted whole is replaced
DefaultedAll(n, g, h) ==
    IF n = "None" /\ g = "None" /\ h = "None"
    THEN <<"lambda", "lambda", "lambda">>
    ELSE <<n, g, h>>

\* lines 56-59 and 71-74: the bundle in effect after the defaulting
Defaulted(n, g, h) ==
    IF n = "None" \/ g = "None" \/ h = "None"
    THEN <<"lambda", "lambda", "lambda">>
    ELSE <<n, g, h>>

----------------------------------------------------------------------------
\* The damping parameter, a power of ten held as its exponent.

\* 10**(-10), the floor tested at line 102
LmFloor == -10
\* 10**(10), the ceiling tested at line 108
LmCeil == 10

\* lines 102-103: lm_param /= lmstep, when lm_param > 10**(-10)
Shrink(lm, step) == IF lm > LmFloor THEN lm - step ELSE lm

\* lines 108-109: lm_param *= lmstep, when lm_param < 10**(10)
Grow(lm, step) == IF lm < LmCeil THEN lm + step ELSE lm

----------------------------------------------------------------------------
\* The linear system of line 94.  An entry <<c0, c1>> stands for
\* c0 + lm_param*c1.

\* hessian + lm_param*hessian_diag: numpy adds the 1-D array
\* lm_param*hessian_diag to every row of hessian, entry j to column j
DampedSystem(H, d) == [i \in 1..Len(H) |-> [j \in 1..Len(H) |-> <<H[i][j], d[j]>>]]

\* (a0 + a1 x)(b0 + b1 x) as coefficients of 1, x, x^2
AffMul(a, b) == <<a[1] * b[1], a[1] * b[2] + a[2] * b[1], a[2] * b[2]>>

\* the determinant of a 1x1 or 2x2 system as a polynomial in lm_param
DetPoly(S) ==
    IF Len(S) = 1
    THEN <<S[1][1][1], S[1][1][2], 0>>
    ELSE LET a == AffMul(S[1][1], S[2][2])
             b == AffMul(S[1][2], S[2][1])
         IN <<a[1] - b[1], a[2] - b[2], a[3] - b[3]>>


\* b*(c0 + c1 x) for a number b, as coefficients of 1, x, x^2
AffScale(a, b) == <<a[1] * b, a[2] * b, 0>>

PolySub(a, b) == <<a[1] - b[1], a[2] - b[2], a[3] - b[3]>>

\* Cramer's rule: component k of the solution of S.x = b is
\* CramerNum(S, b, k) / DetPoly(S), the numerator a polynomial in lm_param
CramerNum(S, b, k) ==
    IF Len(S) = 1
    THEN <<b[1], 0, 0>>
    ELSE IF k = 1
         THEN PolySub(AffScale(S[2][2], b[1]), AffScale(S[1][2], b[2]))
         ELSE PolySub(AffScale(S[1][1], b[2]), AffScale(S[2][1], b[1]))

RECURSIVE Pow10(_)
Pow10(n) == IF n = 0 THEN 1 ELSE 10 * Pow10(n - 1)

Sgn(x) == IF x > 0 THEN 1 ELSE IF x < 0 THEN -1 ELSE 0

\* the sign of q[1] + q[2]*P + q[3]*P^2 for an integer P >= 1, without
\* forming P^2
SignAtInt(q, P) ==
    LET inner == q[2] + q[3] * P
    IN IF Abs(inner) > Abs(q[1]) THEN Sgn(inner) ELSE Sgn(q[1] + P * inner)

\* the sign of the highest coefficient that is not zero
SignLeading(q) ==
    IF q[3] # 0 THEN Sgn(q[3]) ELSE IF q[2] # 0 THEN Sgn(q[2]) ELSE Sgn(q[1])

\* the sign of q[1] + q[2]*10^e + q[3]*10^(2e); from 10^5 on the leading
\* term decides it, the coefficients being below 10^5 - 1
SignAt(q, e) ==
    IF e > 4 THEN SignLeading(q)
    ELSE IF e < -4 THEN SignLeading(<<q[3], q[2], q[1]>>)
    ELSE IF e >= 0 THEN SignAtInt(q, Pow10(e))
    ELSE SignAtInt(<<q[3], q[2], q[1]>>, Pow10(0 - e))

\* numpy.linalg.solve raises LinAlgError on an exactly singular matrix
Singular(S, lm) == SignAt(DetPoly(S), lm) = 0

\* the parameter values and step sizes the model's grid holds
PVals == {-2, -1, 0, 1, 2}
StepSizes == {0, 1, 2}

InGrid(p) == \A i \in 1..Len(p) : p[i] \in PVals

\* numpy.linalg.solve(S, b) for a nonsingular S, on the grid: component k
\* has the sign of the exact solution's component k, zero when that is
\* zero, and a size of the grid
linsys_solver(S, b, lm) ==
    LET sdet == SignAt(DetPoly(S), lm)
        sgn == [k \in 1..Len(b) |-> SignAt(CramerNum(S, b, k), lm) * sdet]
    IN { d \in [1..Len(b) -> {x * y : x \in {-1, 1}, y \in StepSizes}] :
            \A k \in 1..Len(b) : d[k] = 0 \/ Sgn(d[k]) = sgn[k] }

\* a matrix that is not damped, as a system: every entry is constant
PlainSystem(H) == [i \in 1..Len(H) |-> [j \in 1..Len(H) |-> <<H[i][j], 0>>]]

----------------------------------------------------------------------------
\* The calls the model makes.

FLin1 == [kind |-> "linear", A |-> <<<<1>>, <<2>>>>]
FQuad1 == [kind |-> "quadratic", A |-> <<<<1>>, <<1>>>>]
FCubic1 == [kind |-> "cubic", A |-> <<<<1>>>>]
FLin2 == [kind |-> "linear", A |-> <<<<1, 0>>, <<1, 1>>>>]
FZero1 == [kind |-> "linear", A |-> <<<<0>>, <<0>>>>]
FZero2 == [kind |-> "linear", A |-> <<<<0, 0>>, <<0, 0>>>>]

\* data, init and the forward model behind func and jac
Problems ==
    { [func |-> FLin1, data |-> <<1, 2>>, init |-> <<-1>>],
      [func |-> FLin1, data |-> <<1, 2>>, init |-> <<1>>],
      [func |-> FQuad1, data |-> <<1, 1>>, init |-> <<2>>],
      [func |-> FCubic1, data |-> <<0>>, init |-> <<1>>],
      [func |-> FLin2, data |-> <<1, 2>>, init |-> <<0, 0>>],
      [func |-> FZero1, data |-> <<1, 2>>, init |-> <<0>>],
      [func |-> FZero2, data |-> <<1, 2>>, init |-> <<0, 0>>] }

\* (lmstart, lmstep) as exponents of ten; <<2, 1>> are the defaults 100, 10
LmInputs == {<<2, 1>>, <<9, 2>>, <<-9, 2>>, <<11, 1>>}

\* tol as numerator and denominator; <<1, 100000>> is the default 10**(-5)
Tols == {<<1, 100000>>, <<1, 2>>}

\* (reg_norm, reg_grad, reg_hess) as the caller passes them
Bundles ==
    { <<"None", "None", "None">>, <<"noop", "noop", "noop">>,
      <<"ridge", "ridge", "ridge">>, <<"ridge", "None", "None">>,
      <<"None", "ridge", "ridge">>, <<"ridge", "ridge", "None">>,
      <<"ridge", "None", "ridge">> }

MarqCalls ==
    { [entry |-> "marq", func |-> p.func, data |-> p.data, init |-> p.init,
       jac |-> <<>>, lmstart |-> l[1], lmstep |-> l[2], maxsteps |-> ms,
       maxit |-> mi, tol |-> t, reg_norm |-> b[1], reg_grad |-> b[2],
       reg_hess |-> b[3]] :
      p \in Problems, l \in LmInputs, ms \in 0..MaxSteps, mi \in 0..MaxIt,
      t \in Tols, b \in Bundles }

\* linsolver takes the Jacobian as a matrix and has no init and no controls
LinsolverCalls ==
    { [entry |-> "linsolver", func |-> p.func, data |-> p.data, init |-> <<>>,
       jac |-> Jac(p.func, p.init), lmstart |-> 0, lmstep |-> 0, maxsteps |-> 0,
       maxit |-> 0, tol |-> <<0, 1>>, reg_norm |-> b[1], reg_grad |-> b[2],
       reg_hess |-> b[3]] :
      p \in Problems, b \in Bundles }

Init ==
    /\ args \in MarqCalls \cup LinsolverCalls
    /\ pc = "call"
    /\ reg_norm = args.reg_norm
    /\ reg_grad = args.reg_grad
    /\ reg_hess = args.reg_hess
    /\ residuals = <<>>
    /\ rms = 0
    /\ reg = 0
    /\ goals = <<>>
    /\ lm_param = 0
    /\ next = <<>>
    /\ prev = <<>>
    /\ iteration = 0
    /\ jacobian = <<>>
    /\ gradient = <<>>
    /\ hessian = <<>>
    /\ hessian_diag = <<>>
    /\ stagnation = FALSE
    /\ lm_iteration = 0
    /\ system = <<>>
    /\ delta = <<>>
    /\ goal = 0
    /\ result = <<>>
    /\ error = ""
    /\ warnings = 0
    /\ func_calls = 0
    /\ user_reg_calls = 0
    /\ accepted = 0

----------------------------------------------------------------------------
\* linsolver, lines 53-63.

\* linsolver answering a singular hessian with a zero estimate
LinsolverSwallows ==
    /\ pc = "call"
    /\ args.entry = "linsolver"
    /\ LET eff == Defaulted(args.reg_norm, args.reg_grad, args.reg_hess)
           H == RegHess(eff[3], dot_product_mm(Transpose(args.jac), args.jac))
           estimate == ZeroVec(Len(H))
       IN /\ Singular(PlainSystem(H), 0)
          /\ reg_norm' = eff[1]
          /\ reg_grad' = eff[2]
          /\ reg_hess' = eff[3]
          /\ hessian' = H
          /\ system' = PlainSystem(H)
          /\ user_reg_calls' = user_reg_calls + UserCall(eff[3])
          /\ residuals' = VecSub(args.data, Func(args.func, estimate))
          /\ result' = [estimate |-> estimate, residuals |-> residuals']
          /\ func_calls' = func_calls + 1
          /\ pc' = "done"
    /\ UNCHANGED <<args, rms, reg, goals, lm_param, next, prev, iteration,
                   jacobian, gradient, hessian_diag, stagnation, lm_iteration,
                   delta, goal, error, warnings, accepted>>

\* lines 56-60: the defaulting and hessian = reg_hess(None, dot(jac.T, jac)),
\* then line 61, where a singular hessian raises out of linsolver (as does
\* calling a reg_hess that is None)
LinsolverRaise ==
    /\ pc = "call"
    /\ args.entry = "linsolver"
    /\ LET eff == Defaulted(args.reg_norm, args.reg_grad, args.reg_hess)
           H == RegHess(eff[3], dot_product_mm(Transpose(args.jac), args.jac))
       IN /\ IF Callable(eff[3]) THEN Singular(PlainSystem(H), 0) ELSE TRUE
          /\ reg_norm' = eff[1]
          /\ reg_grad' = eff[2]
          /\ reg_hess' = eff[3]
          /\ hessian' = H
          /\ system' = PlainSystem(H)
          /\ user_reg_calls' = user_reg_calls + UserCall(eff[3])
          /\ error' = IF Callable(eff[3]) THEN "LinAlgError" ELSE "TypeError"
          /\ pc' = "raised"
    /\ UNCHANGED <<args, residuals, rms, reg, goals, lm_param, next, prev,
                   iteration, jacobian, gradient, hessian_diag, stagnation,
                   lm_iteration, delta, goal, result, warnings, func_calls,
                   accepted>>

\* lines 56-63 when the solve succeeds
LinsolverReturn ==
    /\ pc = "call"
    /\ args.entry = "linsolver"
    /\ LET eff == Defaulted(args.reg_norm, args.reg_grad, args.reg_hess)
           H == RegHess(eff[3], dot_product_mm(Transpose(args.jac), args.jac))
           rhs == dot_product_mv(Transpose(args.jac), args.data)
       IN /\ Callable(eff[3])
          /\ ~Singular(PlainSystem(H), 0)
          /\ \E estimate \in linsys_solver(PlainSystem(H), rhs, 0) :
                /\ InGrid(estimate)
                /\ residuals' = VecSub(args.data, Func(args.func, estimate))
                /\ result' = [estimate |-> estimate, residuals |-> residuals']
          /\ reg_norm' = eff[1]
          /\ reg_grad' = eff[2]
          /\ reg_hess' = eff[3]
          /\ hessian' = H
          /\ system' = PlainSystem(H)
          /\ user_reg_calls' = user_reg_calls + UserCall(eff[3])
          /\ func_calls' = func_calls + 1
          /\ pc' = "done"
    /\ UNCHANGED <<args, rms, reg, goals, lm_param, next, prev, iteration,
                   jacobian, gradient, hessian_diag, stagnation, lm_iteration,
                   delta, goal, error, warnings, accepted>>

----------------------------------------------------------------------------
\* marq, lines 67-120.

\* the outer loop running one iteration too many
MoreIterationsInclusive(it, maxit) == it <= maxit

\* line 83: for iteration in xrange(maxit), it iterations begun so far
MoreIterations(it, maxit) == it < maxit

\* the acceptance test reversed
Raises(g, gs) == g > gs[Len(gs)]

\* line 100: the candidate step is taken when it lowers the goal
Lowers(g, gs) == g < gs[Len(gs)]

\* the convergence test with < for <=
ConvergedStrict(gs, tol) ==
    Abs(gs[Len(gs)] - gs[Len(gs) - 1]) * tol[2] < tol[1] * Abs(gs[Len(gs) - 1])

\* line 117: abs((goals[-1] - goals[-2])/goals[-2]) <= tol, for goals[-2] > 0
Converged(gs, tol) ==
    Abs(gs[Len(gs)] - gs[Len(gs) - 1]) * tol[2] <= tol[1] * Abs(gs[Len(gs) - 1])

\* lines 70-82: the defaulting, the goal of init, lm_param and next
MarqEnter ==
    /\ pc = "call"
    /\ args.entry = "marq"
    /\ LET eff == Defaulted(args.reg_norm, args.reg_grad, args.reg_hess)
           r == VecSub(args.data, Func(args.func, args.init))
       IN /\ reg_norm' = eff[1]
          /\ reg_grad' = eff[2]
          /\ reg_hess' = eff[3]
          /\ residuals' = r
          /\ rms' = SqNorm(r)
          /\ func_calls' = func_calls + 1
          /\ IF Callable(eff[1])
             THEN /\ reg' = RegNorm(eff[1], args.init)
                  /\ user_reg_calls' = user_reg_calls + UserCall(eff[1])
                  /\ goals' = <<rms' + reg'>>
                  /\ lm_param' = args.lmstart
                  /\ next' = args.init
                  /\ pc' = "for_iteration"
                  /\ error' = error
             ELSE /\ error' = "TypeError"
                  /\ pc' = "raised"
                  /\ UNCHANGED <<reg, user_reg_calls, goals, lm_param, next>>
    /\ UNCHANGED <<args, prev, iteration, jacobian, gradient, hessian,
                   hessian_diag, stagnation, lm_iteration, system, delta, goal,
                   result, warnings, accepted>>

\* lines 83-92: an outer iteration begins; iteration counts those begun
OuterStart ==
    /\ pc = "for_iteration"
    /\ MoreIterations(iteration, args.maxit)
    /\ LET J == Jac(args.func, next)
           g == RegGrad(reg_grad, next,
                        VecNeg(dot_product_mv(Transpose(J), residuals)))
           H == RegHess(reg_hess, dot_product_mm(Transpose(J), J))
       IN /\ iteration' = iteration + 1
          /\ prev' = next
          /\ jacobian' = J
          /\ IF Callable(reg_grad) /\ Callable(reg_hess)
             THEN /\ gradient' = VecNeg(g)
                  /\ hessian' = H
                  /\ hessian_diag' = Diagonal(H)
                  /\ user_reg_calls' =
                        user_reg_calls + UserCall(reg_grad) + UserCall(reg_hess)
                  /\ stagnation' = TRUE
                  /\ lm_iteration' = 0
                  /\ pc' = "for_lm_iteration"
                  /\ error' = error
             ELSE /\ error' = "TypeError"
                  /\ pc' = "raised"
                  /\ user_reg_calls' = user_reg_calls + UserCall(reg_grad)
                  /\ UNCHANGED <<gradient, hessian, hessian_diag, stagnation,
                                 lm_iteration>>
    /\ UNCHANGED <<args, reg_norm, reg_grad, reg_hess, residuals, rms, reg,
                   goals, lm_param, next, system, delta, goal, result, warnings,
                   func_calls, accepted>>

\* line 83: xrange(maxit) is exhausted
OuterExhausted ==
    /\ pc = "for_iteration"
    /\ ~MoreIterations(iteration, args.maxit)
    /\ pc' = "return"
    /\ UNCHANGED <<args, reg_norm, reg_grad, reg_hess, residuals, rms, reg,
                   goals, lm_param, next, prev, iteration, jacobian, gradient,
                   hessian, hessian_diag, stagnation, lm_iteration, system,
                   delta, goal, result, error, warnings, func_calls,
                   user_reg_calls, accepted>>

\* line 94 when the damped system is singular: LinAlgError leaves marq
InnerRaise ==
    /\ pc = "for_lm_iteration"
    /\ lm_iteration < args.maxsteps
    /\ Singular(DampedSystem(hessian, hessian_diag), lm_param)
    /\ system' = DampedSystem(hessian, hessian_diag)
    /\ lm_iteration' = lm_iteration + 1
    /\ error' = "LinAlgError"
    /\ pc' = "raised"
    /\ UNCHANGED <<args, reg_norm, reg_grad, reg_hess, residuals, rms, reg,
                   goals, lm_param, next, prev, iteration, jacobian, gradient,
                   hessian, hessian_diag, stagnation, delta, goal, result,
                   warnings, func_calls, user_reg_calls, accepted>>

\* lines 93-109: one attempt of the Marquardt loop; lm_iteration counts those begun
InnerAttempt ==
    /\ pc = "for_lm_iteration"
    /\ lm_iteration < args.maxsteps
    /\ ~Singular(DampedSystem(hessian, hessian_diag), lm_param)
    /\ system' = DampedSystem(hessian, hessian_diag)
    /\ lm_iteration' = lm_iteration + 1
    /\ \E d \in linsys_solver(DampedSystem(hessian, hessian_diag), gradient, lm_param) :
          /\ InGrid(VecAdd(prev, d))
          /\ delta' = d
          /\ next' = VecAdd(prev, d)
    /\ residuals' = VecSub(args.data, Func(args.func, next'))
    /\ func_calls' = func_calls + 1
    /\ rms' = SqNorm(residuals')
    /\ reg' = RegNorm(reg_norm, next')
    /\ user_reg_calls' = user_reg_calls + UserCall(reg_norm)
    /\ goal' = rms' + reg'
    /\ IF Lowers(goal', goals)
       THEN /\ lm_param' = Shrink(lm_param, args.lmstep)
            /\ stagnation' = FALSE
            /\ accepted' = accepted + 1
            /\ pc' = "after_lm"
       ELSE /\ lm_param' = Grow(lm_param, args.lmstep)
            /\ pc' = "for_lm_iteration"
            /\ UNCHANGED <<stagnation, accepted>>
    /\ UNCHANGED <<args, reg_norm, reg_grad, reg_hess, goals, prev, iteration,
                   jacobian, gradient, hessian, hessian_diag, result, error,
                   warnings>>

\* line 93: xrange(maxsteps) is exhausted without a break
InnerExhausted ==
    /\ pc = "for_lm_iteration"
    /\ lm_iteration >= args.maxsteps
    /\ pc' = "after_lm"
    /\ UNCHANGED <<args, reg_norm, reg_grad, reg_hess, residuals, rms, reg,
                   goals, lm_param, next, prev, iteration, jacobian, gradient,
                   hessian, hessian_diag, stagnation, lm_iteration, system,
                   delta, goal, result, error, warnings, func_calls,
                   user_reg_calls, accepted>>

\* stagnation without line 111: the rejected candidate stays in next
StagnatedKeepsCandidate ==
    /\ pc = "after_lm"
    /\ stagnation
    /\ warnings' = warnings + 1
    /\ pc' = "return"
    /\ UNCHANGED <<args, reg_norm, reg_grad, reg_hess, residuals, rms, reg,
                   goals, lm_param, next, prev, iteration, jacobian, gradient,
                   hessian, hessian_diag, stagnation, lm_iteration, system,
                   delta, goal, result, error, func_calls, user_reg_calls,
                   accepted>>

\* stagnation without the break of line 113
StagnatedRetries ==
    /\ pc = "after_lm"
    /\ stagnation
    /\ next' = prev
    /\ warnings' = warnings + 1
    /\ pc' = "for_iteration"
    /\ UNCHANGED <<args, reg_norm, reg_grad, reg_hess, residuals, rms, reg,
                   goals, lm_param, prev, iteration, jacobian, gradient,
                   hessian, hessian_diag, stagnation, lm_iteration, system,
                   delta, goal, result, error, func_calls, user_reg_calls,
                   accepted>>

\* lines 110-113: stagnation
Stagnated ==
    /\ pc = "after_lm"
    /\ stagnation
    /\ next' = prev
    /\ warnings' = warnings + 1
    /\ pc' = "return"
    /\ UNCHANGED <<args, reg_norm, reg_grad, reg_hess, residuals, rms, reg,
                   goals, lm_param, prev, iteration, jacobian, gradient,
                   hessian, hessian_diag, stagnation, lm_iteration, system,
                   delta, goal, result, error, func_calls, user_reg_calls,
                   accepted>>

\* lines 114-118: the step is recorded and the convergence test made
Accepted ==
    /\ pc = "after_lm"
    /\ ~stagnation
    /\ goals' = Append(goals, goal)
    /\ pc' = IF Converged(goals', args.tol) THEN "return" ELSE "for_iteration"
    /\ UNCHANGED <<args, reg_norm, reg_grad, reg_hess, residuals, rms, reg,
                   lm_param, next, prev, iteration, jacobian, gradient,
                   hessian, hessian_diag, stagnation, lm_iteration, system,
                   delta, goal, result, error, warnings, func_calls,
                   user_reg_calls, accepted>>

\* lines 119-120
Return ==
    /\ pc = "return"
    /\ result' = [estimate |-> next, residuals |-> residuals, goal_p_it |-> goals]
    /\ pc' = "done"
    /\ UNCHANGED <<args, reg_norm, reg_grad, reg_hess, residuals, rms, reg,
                   goals, lm_param, next, prev, iteration, jacobian, gradient,
                   hessian, hessian_diag, stagnation, lm_iteration, system,
                   delta, goal, error, warnings, func_calls, user_reg_calls,
                   accepted>>

Next ==
    \/ LinsolverRaise
    \/ LinsolverReturn
    \/ MarqEnter
    \/ OuterStart
    \/ OuterExhausted
    \/ InnerRaise
    \/ InnerAttempt
    \/ InnerExhausted
    \/ Stagnated
    \/ Accepted
    \/ Return

Spec == Init /\ [][Next]_vars

----------------------------------------------------------------------------
\* Properties.

IsMarq == args.entry = "marq"
IsLinsolver == args.entry = "linsolver"
Returned == pc = "done"
AnyOmitted ==
    args.reg_norm = "None" \/ args.reg_grad = "None" \/ args.reg_hess = "None"
ZeroMatrix(J) == \A i \in 1..Len(J) : \A j \in 1..Len(J[i]) : J[i][j] = 0
NonIncreasing(gs) == \A i \in 1..(Len(gs) - 1) : gs[i + 1] <= gs[i]

\* C1: the goal history of marq is non-increasing at every moment, and so is
\* the goal_p_it it returns.
C1_GoalHistoryNonIncreasing ==
    IsMarq => /\ NonIncreasing(goals)
              /\ Returned => NonIncreasing(result.goal_p_it)

\* marq has returned a history of three goals or more
C1_Witness == IsMarq /\ Returned /\ Len(result.goal_p_it) >= 3

\* C2: whenever marq is about to make an inner attempt, lm_param lies
\* within [10**(-10), 10**(10)].
C2_LmParamWithinBounds ==
    (IsMarq /\ pc = "for_lm_iteration" /\ lm_iteration < args.maxsteps)
        => (LmFloor <= lm_param /\ lm_param <= LmCeil)

\* C3: the residuals marq returns are data - func(estimate) of the estimate
\* it returns.
C3_ResidualsOfReturnedEstimate ==
    (IsMarq /\ Returned)
        => result.residuals = VecSub(args.data, Func(args.func, result.estimate))

\* C4: the matrix of every linear solve of marq is the regularized Hessian
\* with lm_param*H[i][i] added on the main diagonal and nothing added off it.
C4_DampingOnDiagonalOnly ==
    (IsMarq /\ Len(system) > 0)
        => \A i \in 1..Len(system) : \A j \in 1..Len(system) :
              system[i][j] = IF i = j THEN <<hessian[i][i], hessian[i][i]>>
                                      ELSE <<hessian[i][j], 0>>

\* C5: a stagnated inner search raises nothing, warns once, ends the outer
\* loop at once, leaves the goal history alone and makes marq return prev.
C5_Stagnation ==
    [][ /\ (IsMarq /\ pc = "after_lm" /\ stagnation)
           => /\ pc' = "return"
              /\ error' = ""
              /\ warnings' = warnings + 1
              /\ warnings' = 1
              /\ goals' = goals
              /\ iteration' = iteration
        /\ (IsMarq /\ pc = "return" /\ stagnation)
           => /\ pc' = "done"
              /\ error' = ""
              /\ warnings' = 1
              /\ result'.estimate = prev
              /\ result'.goal_p_it = goals ]_vars

\* marq has returned after an inner search whose every attempt was a real,
\* rejected step
C5_Witness ==
    /\ IsMarq /\ Returned /\ stagnation
    /\ args.maxsteps >= 2 /\ lm_iteration = args.maxsteps
    /\ delta # ZeroVec(Len(delta))
    /\ Len(goals) >= 2

\* C6: marq begins at most maxit outer iterations, its goal history has one
\* entry more than the accepted iterations and so at most maxit + 1, and with
\* maxit = 1 it returns two goals when the iteration was accepted, else one.
C6_IterationsAndHistoryLength ==
    IsMarq =>
        /\ iteration <= args.maxit
        /\ accepted <= iteration
        /\ pc \in {"for_iteration", "return", "done"}
              => (Len(goals) = 1 + accepted /\ Len(goals) <= args.maxit + 1)
        /\ Returned => Len(result.goal_p_it) = 1 + accepted
        /\ (Returned /\ args.maxit = 1)
              => Len(result.goal_p_it) = IF accepted = 1 THEN 2 ELSE 1

\* marq has returned from a call with maxit = 1 that still had not converged
C6_Witness ==
    /\ IsMarq /\ Returned /\ args.maxit = 1 /\ Len(result.goal_p_it) = 2
    /\ ~Converged(result.goal_p_it, args.tol)

\* C7: with any of the three callbacks omitted, in linsolver and in marq, the
\* callbacks in effect return what explicit no-ops return, every value
\* computed through them is the no-op's, and no supplied callback is called.
C7_PartialBundleIsNoOp ==
    (AnyOmitted /\ pc # "call") =>
        /\ user_reg_calls = 0
        /\ error # "TypeError"
        /\ \A x \in [1..Len(args.data) -> StepSizes] :
              /\ RegNorm(reg_norm, x) = 0
              /\ RegGrad(reg_grad, x, x) = x
        /\ \A h \in {Identity(1), Identity(2)} : RegHess(reg_hess, h) = h
        /\ reg = 0
        /\ (IsLinsolver /\ Len(hessian) > 0)
              => hessian = dot_product_mm(Transpose(args.jac), args.jac)
        /\ (IsMarq /\ Len(hessian) > 0)
              => hessian = dot_product_mm(Transpose(jacobian), jacobian)

\* marq has returned, after an accepted step, from a call that supplied
\* reg_norm and reg_hess but no reg_grad
C7_Witness ==
    /\ IsMarq /\ Returned /\ accepted >= 1
    /\ args.reg_norm = "ridge" /\ args.reg_grad = "None"
    /\ args.reg_hess = "ridge"

\* C8: linsolver with an all-zero Jacobian and no regularization ends by the
\* solve's LinAlgError leaving it: no result, and func was never called.
C8_ZeroJacobianRaises ==
    (/\ IsLinsolver /\ pc # "call" /\ ZeroMatrix(args.jac)
     /\ (AnyOmitted \/ args.reg_hess = "noop"))
        => /\ pc = "raised"
           /\ error = "LinAlgError"
           /\ result = <<>>
           /\ func_calls = 0

\* linsolver has raised on the 2-parameter zero Jacobian
C8_Witness ==
    /\ IsLinsolver /\ pc = "raised" /\ ZeroMatrix(args.jac)
    /\ Len(args.jac[1]) = 2 /\ args.reg_hess = "None"

\* C9: an accepted iteration appends its goal; the loop then stops, without
\* a warning, exactly when |goals[-1] - goals[-2]|/|goals[-2]| <= tol, and
\* otherwise goes on; an outer iteration that begins starts from the accepted
\* estimate with lm_param as the last one left it.
C9_AcceptThenConvergeOrContinue ==
    [][ /\ (IsMarq /\ pc = "after_lm" /\ ~stagnation)
           => LET last == goals[Len(goals)]
                  within == Abs(goal - last) * args.tol[2]
                                <= args.tol[1] * Abs(last)
              IN /\ goals' = Append(goals, goal)
                 /\ warnings' = warnings
                 /\ next' = next
                 /\ lm_param' = lm_param
                 /\ within => pc' = "return"
                 /\ ~within => pc' = "for_iteration"
        /\ (IsMarq /\ pc = "for_iteration" /\ iteration < args.maxit)
           => /\ pc' = "for_lm_iteration"
              /\ iteration' = iteration + 1
              /\ prev' = next
              /\ lm_param' = lm_param ]_vars

\* marq converged on its third goal, having gone on after the second with
\* lm_param no longer lmstart
C9_Witness ==
    /\ IsMarq /\ Returned /\ warnings = 0
    /\ Len(goals) = 3 /\ iteration < args.maxit
    /\ Converged(goals, args.tol)
    /\ ~Converged(SubSeq(goals, 1, 2), args.tol)
    /\ lm_param # args.lmstart

\* C10: the last goal marq returns is the goal of the estimate it returns.
C10_LastGoalIsGoalOfEstimate ==
    (IsMarq /\ Returned)
        => result.goal_p_it[Len(result.goal_p_it)]
              = SqNorm(VecSub(args.data, Func(args.func, result.estimate)))
                  + RegNorm(reg_norm, result.estimate)

\* marq has returned after a stagnation whose last candidate was not prev
C10_Witness ==
    /\ IsMarq /\ Returned /\ stagnation /\ lm_iteration >= 1
    /\ delta # ZeroVec(Len(delta))
    /\ args.reg_norm = "ridge" /\ reg_norm = "ridge"

====
